---- MODULE Spec2Model ----
(***************************************************************************)
(* Model of the Financial Agent service                                    *)
(* (src/app/api/v0/agents/financial_agent.py): the three HTTP handlers     *)
(* receive_message, health_check and execute_automated_task, the report    *)
(* built by FinancialAgent.analyze_financial_aspects and the two task      *)
(* generators.  A handler that awaits the completion service is split at   *)
(* the await: one action runs it up to the call, one action resumes it     *)
(* with the outcome of the call.                                           *)
(***************************************************************************)
EXTENDS Integers, Sequences, FiniteSets, TLC

(***************************************************************************)
(* Bounds of the model.                                                    *)
(***************************************************************************)
\* number of requests that can be in flight at the same time
NumReqs == 2

Reqs == 1..NumReqs

(***************************************************************************)
(* Python's float arithmetic and the format spec ",.0f".                   *)
(*                                                                         *)
(* A float literal c of the source is the double nearest to c.  For a      *)
(* literal with three decimals, c = milli/1000, the double is              *)
(*     milli/1000 + err / (1000 * 2^(52-exp))                              *)
(* with exp = floor(log2 c) and err an integer; Double gives exp and err   *)
(* of every literal of the source.                                         *)
(***************************************************************************)
Double(milli) ==
  CASE milli = 800  -> [exp |-> -1,  err |-> 400]
    [] milli = 1200 -> [exp |-> 0,   err |-> -200]
    [] milli = 1800 -> [exp |-> 0,   err |-> 200]
    [] milli = 50   -> [exp |-> -5,  err |-> 400]
    [] milli = 80   -> [exp |-> -4,  err |-> 120]
    [] milli = 100  -> [exp |-> -4,  err |-> 400]
    [] milli = 400  -> [exp |-> -2,  err |-> 400]
    [] milli = 250  -> [exp |-> -2,  err |-> 0]
    [] milli = 150  -> [exp |-> -3,  err |-> -200]
    [] milli = 500  -> [exp |-> -1,  err |-> 0]
    [] milli = 20   -> [exp |-> -6,  err |-> 120]
    [] milli = 5    -> [exp |-> -8,  err |-> 120]
    [] milli = 2    -> [exp |-> -9,  err |-> 96]
    [] milli = 1    -> [exp |-> -10, err |-> 96]
    [] milli = 28   -> [exp |-> -6,  err |-> 168]
    [] milli = 3    -> [exp |-> -9,  err |-> 144]
    [] milli = 75   -> [exp |-> -4,  err |-> -200]
    [] milli = 140  -> [exp |-> -3,  err |-> 480]
    [] milli = 750  -> [exp |-> -1,  err |-> 0]

RECURSIVE Pow2(_)
Pow2(n) == IF n <= 0 THEN 1 ELSE 2 * Pow2(n - 1)

RECURSIVE FloorLog2(_)
FloorLog2(q) == IF q <= 1 THEN 0 ELSE 1 + FloorLog2(q \div 2)

Abs(n) == IF n < 0 THEN -n ELSE n

\* The integer that format(v * c, ".0f") prints, c = milli/1000: the double
\* product v * c rounded half-to-even.  Away from a tie the double's error
\* is far smaller than the distance to the tie; at a decimal tie q + 0.5 the
\* product is the tie itself unless the literal's error, scaled by v,
\* exceeds half an ulp of the tie, and then it lies on the error's side.
RoundF0(v, milli) ==
  LET p == v * milli
      q == p \div 1000
      r == p % 1000
      c == Double(milli)
      Et == IF q = 0 THEN -1 ELSE FloorLog2(q)
  IN  IF r < 500 THEN q
      ELSE IF r > 500 THEN q + 1
      ELSE IF 2 * v * Abs(c.err) > 1000 * Pow2(Et - c.exp)
             THEN (IF c.err > 0 THEN q + 1 ELSE q)
             ELSE (IF q % 2 = 0 THEN q ELSE q + 1)

Digit(d) == <<"0", "1", "2", "3", "4", "5", "6", "7", "8", "9">>[d + 1]

RECURSIVE Digits(_)
Digits(n) == IF n < 10 THEN Digit(n) ELSE Digits(n \div 10) \o Digit(n % 10)

Pad3(m) == Digit(m \div 100) \o Digit((m \div 10) % 10) \o Digit(m % 10)

\* the "," option of the format spec: groups of three digits
RECURSIVE Grouped(_)
Grouped(n) ==
  IF n < 1000 THEN Digits(n) ELSE Grouped(n \div 1000) \o "," \o Pad3(n % 1000)

\* f"{initial_investment * c:,.0f}"
FmtMul(v, milli) == Grouped(RoundF0(v, milli))

\* f"{initial_investment:,.0f}"
FmtInt(v) == Grouped(v)

(***************************************************************************)
(* Python values.  A dict is a function on the keys it holds; None and the *)
(* result of dict.get on an optional number are tagged records.            *)
(***************************************************************************)
EmptyDict == <<>>

None == [isNone |-> TRUE]

Some(x) == [isNone |-> FALSE, val |-> x]

\* d.get(k, default)
Get(d, k, default) == IF k \in DOMAIN d THEN d[k] ELSE default

\* d.get(k) of a key that holds a number when present
GetOpt(d, k) == IF k \in DOMAIN d THEN Some(d[k]) ELSE None

\* truth value of an optional number: None and 0 are false
Truth(x) == ~x.isNone /\ x.val # 0

\* str(x) of an optional number
Str(x) == IF x.isNone THEN "None" ELSE Digits(x.val)

\* ', '.join(xs)
RECURSIVE Join(_)
Join(xs) ==
  IF Len(xs) = 0 THEN ""
  ELSE IF Len(xs) = 1 THEN xs[1]
  ELSE xs[1] \o ", " \o Join(Tail(xs))

TBD == "To be determined"

\* f"${initial_investment * c:,.0f}" if initial_investment else "To be determined"
Dollar(ii, milli) == IF Truth(ii) THEN "$" \o FmtMul(ii.val, milli) ELSE TBD

\* DollarMonth that tests "is not None" where the other leaves test truth
DollarMonth_is_not_none(ii, milli) ==
  IF ~ii.isNone THEN "$" \o FmtMul(ii.val, milli) \o "/month" ELSE TBD

\* f"${initial_investment * c:,.0f}/month" if initial_investment else "To be determined"
DollarMonth(ii, milli) ==
  IF Truth(ii) THEN "$" \o FmtMul(ii.val, milli) \o "/month" ELSE TBD

\* f"${initial_investment * c:,.0f}" if initial_investment else <label>
DollarOr(ii, milli, label) ==
  IF Truth(ii) THEN "$" \o FmtMul(ii.val, milli) ELSE label

\* f"{initial_investment * c:,.0f} THB" if initial_investment else "To be determined"
Baht(ii, milli) == IF Truth(ii) THEN FmtMul(ii.val, milli) \o " THB" ELSE TBD

(***************************************************************************)
(* The sections of the report of analyze_financial_aspects, success path.  *)
(* ii is the local initial_investment, bt the local business_type.         *)
(***************************************************************************)
revenue_forecast(ii) ==
  [year_1 |-> Dollar(ii, 800),
   year_2 |-> Dollar(ii, 1200),
   year_3 |-> Dollar(ii, 1800)]

profit_margins(bt) ==
  ((bt \o "_services") :> "60-70%") @@
  ((bt \o "_products") :> "50-60%") @@
  ((bt \o "_consulting") :> "80-90%")

monthly_revenue_targets(ii) ==
  [month_1_6  |-> Dollar(ii, 50),
   month_7_12 |-> Dollar(ii, 80),
   year_2     |-> Dollar(ii, 100)]

financial_projections(ii, bt) ==
  [revenue_forecast        |-> revenue_forecast(ii),
   profit_margins          |-> profit_margins(bt),
   monthly_revenue_targets |-> monthly_revenue_targets(ii)]

funding_total(ii) ==
  IF Truth(ii) THEN "$" \o FmtInt(ii.val) ELSE TBD

funding_initial_investment(ii, bt) ==
  ((bt \o "_equipment") :> Dollar(ii, 400)) @@
  ((bt \o "_facility")  :> Dollar(ii, 250)) @@
  ((bt \o "_inventory") :> Dollar(ii, 100)) @@
  [marketing       |-> Dollar(ii, 150),
   working_capital |-> Dollar(ii, 100),
   total           |-> funding_total(ii)]

funding_sources(ii) ==
  << [source |-> "Personal savings", amount |-> Dollar(ii, 500), percentage |-> "50%"],
     [source |-> "Bank loan",        amount |-> Dollar(ii, 400), percentage |-> "40%"],
     [source |-> "Investor/Partner", amount |-> Dollar(ii, 100), percentage |-> "10%"] >>

funding_requirements(ii, bt) ==
  [initial_investment |-> funding_initial_investment(ii, bt),
   funding_sources    |-> funding_sources(ii)]

\* fixed_costs with total_fixed derived from the four leaves above it
fixed_costs_total_summed(ii) ==
  [rent        |-> DollarMonth(ii, 20),
   utilities   |-> DollarMonth(ii, 5),
   insurance   |-> DollarMonth(ii, 2),
   licenses    |-> DollarMonth(ii, 1),
   total_fixed |->
     IF Truth(ii)
       THEN "$" \o Grouped(RoundF0(ii.val, 20) + RoundF0(ii.val, 5)
                           + RoundF0(ii.val, 2) + RoundF0(ii.val, 1)) \o "/month"
       ELSE TBD]

fixed_costs(ii) ==
  [rent        |-> DollarMonth(ii, 20),
   utilities   |-> DollarMonth(ii, 5),
   insurance   |-> DollarMonth(ii, 2),
   licenses    |-> DollarMonth(ii, 1),
   total_fixed |-> DollarMonth(ii, 28)]

variable_costs(bt) ==
  ((bt \o "_materials") :> "25% of revenue") @@
  ((bt \o "_labor")     :> "30% of revenue") @@
  ((bt \o "_marketing") :> "10% of revenue") @@
  ((bt \o "_overhead")  :> "15% of revenue") @@
  [total_variable |-> "80% of revenue"]

cost_structure(ii, bt) ==
  [fixed_costs |-> fixed_costs(ii), variable_costs |-> variable_costs(bt)]

pricing(ii, bt) ==
  (("basic_" \o bt \o "_service")   :> DollarOr(ii, 1, "Market-based pricing")) @@
  (("premium_" \o bt \o "_service") :> DollarOr(ii, 2, "Value-based pricing")) @@
  ((bt \o "_consulting")            :> DollarOr(ii, 5, "Hourly rate"))

pricing_strategy(ii, bt) ==
  ((bt \o "_pricing") :> pricing(ii, bt)) @@
  [pricing_factors |-> << "Competitor analysis", "Cost-plus pricing",
                          "Value-based pricing", bt \o " market positioning" >>]

daily_cash_flow(ii) ==
  [inflow  |-> Dollar(ii, 3),
   outflow |-> Dollar(ii, 2),
   net     |-> Dollar(ii, 1)]

cash_flow_management(ii) ==
  [daily_cash_flow |-> daily_cash_flow(ii),
   cash_reserves   |-> "Maintain 3-6 months of operating expenses",
   payment_terms   |-> [suppliers |-> "Net 30 days",
                        customers |-> "Immediate payment",
                        utilities |-> "Monthly in advance"]]

investment_opportunities(ii, bt) ==
  << [opportunity |-> bt \o " equipment upgrade", investment |-> Dollar(ii, 150),
      roi |-> "15-20%", payback_period |-> "18-24 months"],
     [opportunity |-> bt \o " technology system", investment |-> Dollar(ii, 75),
      roi |-> "25-30%", payback_period |-> "12-18 months"],
     [opportunity |-> bt \o " marketing campaign", investment |-> Dollar(ii, 100),
      roi |-> "20-25%", payback_period |-> "6-12 months"] >>

financial_risks(bt, industry) ==
  [market_risks |->
     << "Economic downturn affecting " \o bt \o " demand",
        "Changes in " \o industry \o " regulations",
        "New " \o bt \o " competitors entering the market" >>,
   operational_risks |->
     << bt \o " staff turnover and training costs",
        bt \o " equipment breakdowns",
        bt \o " supply chain disruptions" >>,
   mitigation_strategies |->
     << "Diversify " \o bt \o " revenue streams",
        "Build emergency fund",
        "Maintain good " \o bt \o " supplier relationships",
        "Invest in " \o bt \o " staff training and retention" >>]

break_even_analysis(ii) ==
  [monthly_fixed_costs         |-> Dollar(ii, 28),
   average_contribution_margin |-> "20%",
   break_even_revenue          |-> DollarMonth(ii, 140),
   break_even_timeframe        |-> "8-12 months"]

financial_kpis ==
  << "Daily sales revenue", "Customer average transaction value",
     "Cost of goods sold (COGS)", "Gross profit margin", "Net profit margin",
     "Cash flow from operations", "Return on investment (ROI)",
     "Customer acquisition cost" >>

recommendations ==
  << "Start with conservative financial projections and adjust based on actual performance",
     "Maintain a cash reserve of at least 6 months of operating expenses",
     "Implement cost control measures and regular financial monitoring",
     "Consider multiple funding sources to reduce financial risk",
     "Focus on high-margin products and efficient operations",
     "Invest in technology to improve operational efficiency",
     "Build strong relationships with suppliers for better payment terms",
     "Regularly review and adjust pricing strategy based on market conditions" >>

\* the dict built at lines 146-424
financial_analysis(business_data, financial_analysis_text) ==
  LET business_name == Get(business_data, "business_name", "")
      bt            == Get(business_data, "business_type", "")
      industry      == Get(business_data, "industry", "")
      ii            == GetOpt(business_data, "initial_investment")
  IN  [business_name            |-> business_name,
       business_type            |-> bt,
       financial_projections    |-> financial_projections(ii, bt),
       funding_requirements     |-> funding_requirements(ii, bt),
       cost_structure           |-> cost_structure(ii, bt),
       pricing_strategy         |-> pricing_strategy(ii, bt),
       cash_flow_management     |-> cash_flow_management(ii),
       investment_opportunities |-> investment_opportunities(ii, bt),
       financial_risks          |-> financial_risks(bt, industry),
       break_even_analysis      |-> break_even_analysis(ii),
       financial_kpis           |-> financial_kpis,
       recommendations          |-> recommendations,
       ai_analysis              |-> financial_analysis_text]

(***************************************************************************)
(* The dict returned by the except branch, lines 430-469.                  *)
(***************************************************************************)
\* fallback_revenue_forecast with the fractions of the success path
fallback_revenue_forecast_full_rates(ii) ==
  [year_1 |-> Baht(ii, 800),
   year_2 |-> Baht(ii, 1200)]

fallback_revenue_forecast(ii) ==
  [year_1 |-> Baht(ii, 500),
   year_2 |-> Baht(ii, 750)]

\* fallback_total with the fraction of the line above it (year_1, 0.5)
fallback_total_half(ii) == Baht(ii, 500)

fallback_total(ii) ==
  IF Truth(ii) THEN FmtInt(ii.val) \o " THB" ELSE TBD

fallback_pricing(bt) ==
  (("basic_" \o bt \o "_service")   :> "Market-based pricing") @@
  (("premium_" \o bt \o "_service") :> "Value-based pricing") @@
  ((bt \o "_consulting")            :> "Hourly rate")

fallback_recommendations(bt) ==
  << "Maintain cash reserves",
     "Monitor costs closely",
     "Focus on high-margin " \o bt \o " products/services",
     "Build supplier relationships" >>

fallback_analysis(business_data) ==
  LET business_name == Get(business_data, "business_name", "")
      bt            == Get(business_data, "business_type", "")
      ii            == GetOpt(business_data, "initial_investment")
  IN  [business_name         |-> business_name,
       business_type         |-> bt,
       financial_projections |-> [revenue_forecast |-> fallback_revenue_forecast(ii)],
       funding_requirements  |-> [initial_investment |-> [total |-> fallback_total(ii)]],
       pricing_strategy      |-> ((bt \o "_pricing") :> fallback_pricing(bt)),
       recommendations       |-> fallback_recommendations(bt)]

(***************************************************************************)
(* Exceptions: an expression that can raise yields Ok(value) or            *)
(* Raised(str(e)).                                                         *)
(***************************************************************************)
Ok(v) == [raised |-> FALSE, value |-> v]

Raised(msg) == [raised |-> TRUE, exc |-> msg]

(***************************************************************************)
(* The completion service, openai.ChatCompletion.acreate: it raises, or it *)
(* returns a response whose choices may be empty (a malformed response).   *)
(***************************************************************************)
Narratives == {"", "Focus on margins."}

CompletionOutcomes ==
  { Raised("Request timed out"),
    Raised("The server is overloaded or not ready yet."),
    Ok([choices |-> <<>>]) }
  \cup { Ok([choices |-> << [message |-> [content |-> t]] >>]) : t \in Narratives }

\* response.choices[0].message.content
Content(response) ==
  IF Len(response.choices) = 0
    THEN Raised("list index out of range")
    ELSE Ok(response.choices[1].message.content)

(***************************************************************************)
(* FinancialAgent.analyze_financial_aspects.                               *)
(***************************************************************************)
\* lines 54-126: the locals and the prompt.  The prompt is kept as the record
\* of the values interpolated into the f-string.  The replacement field
\* {initial_investment:,.0f} of line 77 is formatted whatever the value is
\* (the conditional that follows it is text of the f-string), and
\* format(None, ",.0f") raises TypeError.
analyze_prompt(business_data, strategic_plan) ==
  LET initial_investment == GetOpt(business_data, "initial_investment")
      team_size          == GetOpt(business_data, "team_size")
  IN  IF initial_investment.isNone
        THEN Raised("unsupported format string passed to NoneType.__format__")
        ELSE Ok([business_name      |-> Get(business_data, "business_name", ""),
                 business_type      |-> Get(business_data, "business_type", ""),
                 location           |-> Get(business_data, "location", ""),
                 description        |-> Get(business_data, "description", ""),
                 target_market      |-> Get(business_data, "target_market", ""),
                 industry           |-> Get(business_data, "industry", ""),
                 business_model     |-> Get(business_data, "business_model", ""),
                 initial_investment |-> "$" \o FmtInt(initial_investment.val),
                 team_size          |-> Str(team_size),
                 growth_goals       |-> Join(Get(business_data, "growth_goals", <<>>)),
                 short_term_goals   |->
                   Get(Get(strategic_plan, "growth_strategy", EmptyDict),
                       "short_term_goals", <<>>)])

\* lines 130-141: the arguments of the call
analyze_call(business_data, prompt) ==
  [model       |-> "gpt-3.5-turbo",
   system      |-> [business_type |-> Get(business_data, "business_type", ""),
                    industry      |-> Get(business_data, "industry", "")],
   user        |-> prompt,
   max_tokens  |-> 1500,
   temperature |-> "0.7"]

\* analyze_result with line 143 moved out of the try: an empty choices list
\* raises IndexError to the caller
analyze_result_line143_outside_try(business_data, outcome) ==
  IF outcome.raised
    THEN Ok(fallback_analysis(business_data))
    ELSE LET text == Content(outcome.value)
         IN  IF text.raised THEN text
             ELSE Ok(financial_analysis(business_data, text.value))

\* analyze_result with line 423 storing the prompt's placeholder instead of
\* the returned text
analyze_result_drops_text(business_data, outcome) ==
  LET text == IF outcome.raised THEN outcome ELSE Content(outcome.value)
  IN  IF text.raised
        THEN Ok(fallback_analysis(business_data))
        ELSE Ok(financial_analysis(business_data, ""))

\* lines 128-469 from the return of the call: the try body builds the full
\* report, and any exception of the call or of line 143 selects the except
\* branch
analyze_result(business_data, outcome) ==
  LET text == IF outcome.raised THEN outcome ELSE Content(outcome.value)
  IN  IF text.raised
        THEN Ok(fallback_analysis(business_data))
        ELSE Ok(financial_analysis(business_data, text.value))

(***************************************************************************)
(* Responses.  exception names the exception that left the handler, "none" *)
(* when the handler returned.                                              *)
(***************************************************************************)
Returned(body) == [status_code |-> 200, exception |-> "none", body |-> body]

\* raise HTTPException(status_code=500, detail=...)
HTTPException(code, detail) ==
  [status_code |-> code, exception |-> "HTTPException", body |-> [detail |-> detail]]

\* an exception the handler does not catch: the framework answers 500
Unhandled(exc, msg) ==
  [status_code |-> 500, exception |-> exc, body |-> [detail |-> "Internal Server Error"],
   message |-> msg]

\* FinancialResponse that reports the agent's own agent_type (line 47)
\* instead of the request's
FinancialResponse_own_agent_type(message, analysis) ==
  [agent_type         |-> "financial",
   financial_analysis |-> analysis,
   request_id         |-> message.request_id]

\* lines 484-489 (the timestamp of the response is left out of the model)
FinancialResponse(message, analysis) ==
  [agent_type         |-> message.agent_type,
   financial_analysis |-> analysis,
   request_id         |-> message.request_id]

\* lines 490-493
analysis_failed(exc) == HTTPException(500, "Financial analysis failed: " \o exc)

\* the response of receive_message once analyze_financial_aspects has
\* returned or raised, lines 479-493
receive_message_response(message, result) ==
  IF result.raised
    THEN analysis_failed(result.exc)
    ELSE Returned(FinancialResponse(message, result.value))

(***************************************************************************)
(* The task generators and the generic result of execute_automated_task.   *)
(* task_type and business_name are Python values that can be None: they    *)
(* are kept tagged, None or Some(string).                                  *)
(***************************************************************************)
\* str(x) of an optional string, as an f-string formats it
StrS(x) == IF x.isNone THEN "None" ELSE x.val

\* lines 563-588: the arguments of the call of perform_financial_review
review_call(business_name) ==
  [model       |-> "gpt-3.5-turbo",
   system      |-> "financial analyst",
   user        |-> [business_name |-> StrS(business_name)],
   max_tokens  |-> 1000,
   temperature |-> "0.7"]

\* lines 590-628 (review_date is left out of the model)
perform_financial_review(business_name, business_id, outcome) ==
  LET analysis == IF outcome.raised THEN outcome ELSE Content(outcome.value)
  IN  IF analysis.raised
        THEN [status |-> "failed", error |-> analysis.exc,
              task_type |-> Some("financial_review")]
        ELSE [status             |-> "completed",
              task_type          |-> Some("financial_review"),
              business_name      |-> business_name,
              business_id        |-> business_id,
              financial_analysis |-> analysis.value,
              financial_data     |-> [revenue |-> 850000, expenses |-> 680000,
                                      profit_margin |-> 20, cash_flow |-> 120000,
                                      growth_rate |-> 15],
              key_metrics        |-> [revenue_growth |-> "15%", profit_margin |-> "20%",
                                      cash_flow_positive |-> TRUE, expense_ratio |-> "80%"],
              financial_recommendations |->
                << "Optimize pricing strategy for better margins",
                   "Implement cost control measures",
                   "Improve cash flow management",
                   "Explore financing options for growth" >>,
              risk_assessment    |->
                [financial_risks |-> << "Cash flow volatility", "Market competition" >>,
                 mitigation_strategies |->
                   << "Build cash reserves", "Diversify revenue streams" >>]]

\* lines 636-663: the arguments of the call of perform_budget_adjustment
budget_call(business_name) ==
  [model       |-> "gpt-3.5-turbo",
   system      |-> "budget consultant",
   user        |-> [business_name |-> StrS(business_name)],
   max_tokens  |-> 1000,
   temperature |-> "0.7"]

\* perform_budget_adjustment whose except branch was copied from
\* perform_financial_review with its task_type
perform_budget_adjustment_wrong_type(business_name, business_id, outcome) ==
  LET adjustment == IF outcome.raised THEN outcome ELSE Content(outcome.value)
  IN  IF adjustment.raised
        THEN [status |-> "failed", error |-> adjustment.exc,
              task_type |-> Some("financial_review")]
        ELSE [status             |-> "completed",
              task_type          |-> Some("budget_adjustment"),
              business_name      |-> business_name,
              business_id        |-> business_id,
              budget_analysis    |-> adjustment.value,
              budget_adjustments |-> [marketing_budget |-> "+20%",
                                      operational_costs |-> "-5%",
                                      technology_investment |-> "+30%",
                                      staff_training |-> "+15%"]]

\* lines 665-698 (adjustment_date is left out of the model)
perform_budget_adjustment(business_name, business_id, outcome) ==
  LET adjustment == IF outcome.raised THEN outcome ELSE Content(outcome.value)
  IN  IF adjustment.raised
        THEN [status |-> "failed", error |-> adjustment.exc,
              task_type |-> Some("budget_adjustment")]
        ELSE [status             |-> "completed",
              task_type          |-> Some("budget_adjustment"),
              business_name      |-> business_name,
              business_id        |-> business_id,
              budget_analysis    |-> adjustment.value,
              budget_adjustments |-> [marketing_budget |-> "+20%",
                                      operational_costs |-> "-5%",
                                      technology_investment |-> "+30%",
                                      staff_training |-> "+15%"],
              resource_allocation |->
                [high_priority   |-> << "Marketing", "Technology" >>,
                 medium_priority |-> << "Staff training", "Operations" >>,
                 low_priority    |-> << "Administrative costs" >>],
              investment_opportunities |->
                << "Digital marketing automation",
                   "Customer relationship management system",
                   "Process optimization tools" >>,
              cost_optimization  |->
                << "Negotiate supplier contracts",
                   "Implement energy efficiency measures",
                   "Optimize inventory management" >>]

\* generic_result that reports a fixed task_type instead of the request's
generic_result_no_echo(task_type, business_name) ==
  [status             |-> "completed",
   task_type          |-> Some("generic"),
   message            |-> "Financial analysis completed for " \o StrS(task_type),
   financial_insights |-> "Financial insights for " \o StrS(business_name),
   recommendations    |-> << "Monitor cash flow regularly",
                             "Review expense patterns",
                             "Optimize pricing strategy" >>]

\* lines 534-544
generic_result(task_type, business_name) ==
  [status             |-> "completed",
   task_type          |-> task_type,
   message            |-> "Financial analysis completed for " \o StrS(task_type),
   financial_insights |-> "Financial insights for " \o StrS(business_name),
   recommendations    |-> << "Monitor cash flow regularly",
                             "Review expense patterns",
                             "Optimize pricing strategy" >>]

\* The body of a request of execute_automated_task: text that request.json()
\* cannot parse, or JSON text; data is what request.json() returns.
IsDict(data) == data.type = "dict"

\* data.get(k): a dict looks the key up, a list and None have no method get
DataGet(data, k) ==
  IF IsDict(data)
    THEN Ok(GetOpt(data.items, k))
    ELSE Raised("'" \o data.type \o "' object has no attribute 'get'")

\* line 510
request_json(body) ==
  IF body.parses THEN Ok(body.data)
  ELSE Raised("Expecting value: line 1 column 1 (char 0)")

\* task_error without the guard "data" in locals(): reading data when
\* request.json() raised is an UnboundLocalError
task_error_unguarded(parsed, e) ==
  IF parsed.raised
    THEN Unhandled("UnboundLocalError",
                   "local variable 'data' referenced before assignment")
    ELSE LET tt == DataGet(parsed.value, "task_type")
         IN  IF tt.raised
               THEN Unhandled("AttributeError", tt.exc)
               ELSE Returned([status |-> "failed", error |-> e, task_type |-> tt.value])

\* lines 549-555: the except branch of execute_automated_task.  parsed is the
\* result of line 510 and e the exception caught.  The conditional of line
\* 554 calls data.get again whenever data is bound, so an exception that came
\* from data.get comes back, this time outside any try.
task_error(parsed, e) ==
  IF parsed.raised
    THEN Returned([status |-> "failed", error |-> e, task_type |-> Some("unknown")])
    ELSE LET tt == DataGet(parsed.value, "task_type")
         IN  IF tt.raised
               THEN Unhandled("AttributeError", tt.exc)
               ELSE Returned([status |-> "failed", error |-> e, task_type |-> tt.value])

(***************************************************************************)
(* Inputs.                                                                 *)
(***************************************************************************)
Investments == {0, 100875}

BusinessData ==
  { [business_name |-> "Bean There", business_type |-> "cafe", industry |-> "food"]
      @@ inv @@ team :
      inv  \in {EmptyDict} \cup { [initial_investment |-> v] : v \in Investments },
      team \in {EmptyDict, [team_size |-> 5]} }

StrategicPlans ==
  { EmptyDict,
    [strategic_plan |-> [growth_strategy |-> [short_term_goals |-> << "second branch" >>]]] }

\* MCPMessage, lines 28-33: strategic_plan defaults to {}.  The request in
\* slot r carries its own agent_type and request_id.
MCPMessage(fields) == fields @@ [strategic_plan |-> EmptyDict]

\* team_size and strategic_plan reach the prompt only, each on a line of its
\* own (lines 78 and 81): a message gives both or neither.
Profiles ==
  { p \in BusinessData \X StrategicPlans :
      ("team_size" \in DOMAIN p[1]) = (p[2] # EmptyDict) }

Messages(r) ==
  { MCPMessage([agent_type    |-> "core-" \o Digits(r),
                business_data |-> p[1],
                timestamp     |-> "2024-01-01T00:00:00",
                request_id    |-> "req-" \o Digits(r)] @@ p[2]) :
      p \in Profiles }

TaskDicts ==
  { [task_type |-> t, business_name |-> "Bean There"] :
      t \in {"financial_review", "budget_adjustment", "cash_audit"} }
  \cup { [task_type |-> "financial_review", business_name |-> "Bean There",
          business_id |-> "biz-7"],
         [business_name |-> "Bean There"],
         EmptyDict }

TaskBodies ==
  { [parses |-> FALSE],
    [parses |-> TRUE, data |-> [type |-> "list"]],
    [parses |-> TRUE, data |-> [type |-> "NoneType"]] }
  \cup { [parses |-> TRUE, data |-> [type |-> "dict", items |-> d]] : d \in TaskDicts }

(***************************************************************************)
(* State.  Each request in flight has its own slot; the module keeps no    *)
(* state between requests (financial_agent, line 473, holds one constant). *)
(***************************************************************************)
VARIABLES
  pc,        \* where the handler of the slot is: "idle", "analyze", "review",
             \* "budget" (suspended at the await of the call) or "done"
  request,   \* the request the slot serves
  call,      \* the completion-service call the slot is waiting for
  ncalls,    \* how many completion-service calls the slot has made
  outcome,   \* the outcome of the call, once delivered
  response   \* the response sent to the caller

vars == <<pc, request, call, ncalls, outcome, response>>

NoRequest == [endpoint |-> "none"]

NoCall == [model |-> "none"]

NoOutcome == [pending |-> TRUE]

NoResponse == [status_code |-> 0]

Init ==
  /\ pc = [r \in Reqs |-> "idle"]
  /\ request = [r \in Reqs |-> NoRequest]
  /\ call = [r \in Reqs |-> NoCall]
  /\ ncalls = [r \in Reqs |-> 0]
  /\ outcome = [r \in Reqs |-> NoOutcome]
  /\ response = [r \in Reqs |-> NoResponse]

\* the handler of slot r ends with response resp
Finish(r, resp) ==
  /\ pc' = [pc EXCEPT ![r] = "done"]
  /\ response' = [response EXCEPT ![r] = resp]

\* the handler of slot r issues call c and is suspended at label
Await(r, label, c) ==
  /\ pc' = [pc EXCEPT ![r] = label]
  /\ call' = [call EXCEPT ![r] = c]
  /\ ncalls' = [ncalls EXCEPT ![r] = @ + 1]
  /\ UNCHANGED response

\* the call of slot r ends with outcome o
Deliver(r, o) ==
  /\ call' = [call EXCEPT ![r] = NoCall]
  /\ outcome' = [outcome EXCEPT ![r] = o]
  /\ UNCHANGED <<request, ncalls>>

\* POST /receive_message, lines 476-493, up to the await of line 130
receive_message(r, message) ==
  /\ pc[r] = "idle"
  /\ request' = [request EXCEPT ![r] = [endpoint |-> "receive_message", message |-> message]]
  /\ UNCHANGED outcome
  /\ LET prompt == analyze_prompt(message.business_data, message.strategic_plan)
     IN  IF prompt.raised
           THEN Finish(r, receive_message_response(message, prompt))
                /\ UNCHANGED <<call, ncalls>>
           ELSE Await(r, "analyze", analyze_call(message.business_data, prompt.value))

\* analysis_returns of an agent that keeps the last failure of the
\* completion service on the shared financial_agent object and reads it back
\* when a call returns
analysis_returns_shared_failure(r, o) ==
  /\ pc[r] = "analyze"
  /\ Deliver(r, o)
  /\ LET message == request[r].message
         stale   == { q \in Reqs \ {r} :
                        outcome[q] # NoOutcome /\ outcome[q].raised }
         seen    == IF stale = {} THEN o ELSE outcome[CHOOSE q \in stale : TRUE]
     IN  Finish(r, receive_message_response(message,
                     analyze_result(message.business_data, seen)))

\* receive_message from the return of the await of line 130
analysis_returns(r, o) ==
  /\ pc[r] = "analyze"
  /\ Deliver(r, o)
  /\ LET message == request[r].message
     IN  Finish(r, receive_message_response(message,
                     analyze_result(message.business_data, o)))

\* GET /health, lines 496-503 (the timestamp is left out of the model)
health_check(r) ==
  /\ pc[r] = "idle"
  /\ request' = [request EXCEPT ![r] = [endpoint |-> "health_check"]]
  /\ Finish(r, Returned([status |-> "healthy", agent_type |-> "financial"]))
  /\ UNCHANGED <<call, ncalls, outcome>>

\* POST /execute_automated_task, lines 506-555, up to the await inside the
\* generator it selects
execute_automated_task(r, body) ==
  /\ pc[r] = "idle"
  /\ request' = [request EXCEPT ![r] = [endpoint |-> "execute_automated_task", body |-> body]]
  /\ UNCHANGED outcome
  /\ LET parsed == request_json(body)
         first  == IF parsed.raised THEN parsed ELSE DataGet(parsed.value, "task_type")
     IN  IF first.raised
           THEN Finish(r, task_error(parsed, first.exc)) /\ UNCHANGED <<call, ncalls>>
           ELSE LET data          == parsed.value.items
                    task_type     == GetOpt(data, "task_type")
                    business_name == GetOpt(data, "business_name")
                IN  IF task_type = Some("financial_review")
                      THEN Await(r, "review", review_call(business_name))
                    ELSE IF task_type = Some("budget_adjustment")
                      THEN Await(r, "budget", budget_call(business_name))
                    ELSE Finish(r, Returned(generic_result(task_type, business_name)))
                         /\ UNCHANGED <<call, ncalls>>

\* execute_automated_task from the return of the await of line 577
review_returns(r, o) ==
  /\ pc[r] = "review"
  /\ Deliver(r, o)
  /\ LET data == request[r].body.data.items
     IN  Finish(r, Returned(perform_financial_review(
                     GetOpt(data, "business_name"),
                     Get(data, "business_id", "temp_id"), o)))

\* execute_automated_task from the return of the await of line 652
budget_returns(r, o) ==
  /\ pc[r] = "budget"
  /\ Deliver(r, o)
  /\ LET data == request[r].body.data.items
     IN  Finish(r, Returned(perform_budget_adjustment(
                     GetOpt(data, "business_name"),
                     Get(data, "business_id", "temp_id"), o)))

Next ==
  \E r \in Reqs :
    \/ \E message \in Messages(r) : receive_message(r, message)
    \/ \E o \in CompletionOutcomes : analysis_returns(r, o)
    \/ health_check(r)
    \/ \E body \in TaskBodies : execute_automated_task(r, body)
    \/ \E o \in CompletionOutcomes : review_returns(r, o)
    \/ \E o \in CompletionOutcomes : budget_returns(r, o)

Spec == Init /\ [][Next]_vars

(***************************************************************************)
(* Properties.                                                             *)
(***************************************************************************)
\* slot r has answered a request of endpoint ep
Done(r, ep) == pc[r] = "done" /\ request[r].endpoint = ep

\* the completion call of slot r has ended
Delivered(r) == outcome[r] # NoOutcome

\* the call failed: it raised, or its response has no choice to read
Failed(o) == o.raised \/ Len(o.value.choices) = 0

Succeeded(o) == ~o.raised /\ Len(o.value.choices) > 0

AnalysisOf(r) == response[r].body.financial_analysis

BusinessDataOf(r) == request[r].message.business_data

HasInvestment(r) == "initial_investment" \in DOMAIN BusinessDataOf(r)

FallbackKeys ==
  {"business_name", "business_type", "financial_projections",
   "funding_requirements", "pricing_strategy", "recommendations"}

FullKeys ==
  FallbackKeys \cup
  {"cost_structure", "cash_flow_management", "investment_opportunities",
   "financial_risks", "break_even_analysis", "financial_kpis", "ai_analysis"}

\* the monetary leaves of a report, of either shape
MonetaryLeaves(rep) ==
  LET bt == rep.business_type
      fp == rep.financial_projections
      fr == rep.funding_requirements
  IN  IF DOMAIN rep = FullKeys
        THEN { fp.revenue_forecast[k] : k \in DOMAIN fp.revenue_forecast }
             \cup { fp.monthly_revenue_targets[k] : k \in DOMAIN fp.monthly_revenue_targets }
             \cup { fr.initial_investment[k] : k \in DOMAIN fr.initial_investment }
             \cup { fr.funding_sources[i].amount : i \in DOMAIN fr.funding_sources }
             \cup { rep.cost_structure.fixed_costs[k] :
                      k \in DOMAIN rep.cost_structure.fixed_costs }
             \cup { rep.pricing_strategy[bt \o "_pricing"][k] :
                      k \in DOMAIN rep.pricing_strategy[bt \o "_pricing"] }
             \cup { rep.cash_flow_management.daily_cash_flow[k] :
                      k \in DOMAIN rep.cash_flow_management.daily_cash_flow }
             \cup { rep.investment_opportunities[i].investment :
                      i \in DOMAIN rep.investment_opportunities }
             \cup { rep.break_even_analysis.monthly_fixed_costs,
                    rep.break_even_analysis.break_even_revenue }
        ELSE { fp.revenue_forecast[k] : k \in DOMAIN fp.revenue_forecast }
             \cup { fr.initial_investment[k] : k \in DOMAIN fr.initial_investment }

\* C1: when the completion call of a receive_message request fails (it
\* raises, or its response is malformed), the caller gets a success response
\* whose financial_analysis is the reduced fallback report, never a 500.
C1_FailureNotSurfaced ==
  \A r \in Reqs :
    (Done(r, "receive_message") /\ Delivered(r) /\ Failed(outcome[r]))
      => /\ response[r].status_code = 200
         /\ response[r].exception = "none"
         /\ DOMAIN AnalysisOf(r) = FallbackKeys

\* a request whose call returned a response without choices, and one whose
\* call raised, have both been answered with the fallback report
C1_Witness ==
  \E r1, r2 \in Reqs :
    /\ Done(r1, "receive_message") /\ outcome[r1] = Ok([choices |-> <<>>])
    /\ response[r1].status_code = 200
    /\ Done(r2, "receive_message") /\ outcome[r2] = Raised("Request timed out")
    /\ response[r2].status_code = 200

\* C2: analyze_financial_aspects is total: every receive_message request,
\* initial_investment, team_size and strategic_plan present or absent, gets a
\* report and no exception is raised.
C2_Total ==
  \A r \in Reqs :
    Done(r, "receive_message")
      => response[r].exception = "none" /\ response[r].status_code = 200

\* C3: every request without initial_investment gets a report all of whose
\* monetary leaves are the placeholder "To be determined".
C3_AbsentAllPlaceholders ==
  \A r \in Reqs :
    (Done(r, "receive_message") /\ ~HasInvestment(r))
      => /\ response[r].status_code = 200
         /\ MonetaryLeaves(AnalysisOf(r)) = {TBD}

\* C4: for initial_investment v > 0 each monetary leaf of the full report is
\* v times the leaf's own fraction, formatted: year_1 0.8, year_2 1.2,
\* year_3 1.8, equipment 0.4, facility 0.25, total 1.0, rent 0.02,
\* total_fixed 0.028 and break_even_revenue 0.14 (the three monthly leaves
\* carry the suffix "/month"); no leaf is the placeholder.
C4_LeafFractions ==
  \A r \in Reqs :
    (/\ Done(r, "receive_message") /\ Delivered(r) /\ Succeeded(outcome[r])
     /\ HasInvestment(r) /\ BusinessDataOf(r).initial_investment > 0)
      => LET v   == BusinessDataOf(r).initial_investment
             rep == AnalysisOf(r)
             bt  == rep.business_type
             rf  == rep.financial_projections.revenue_forecast
             fi  == rep.funding_requirements.initial_investment
             fc  == rep.cost_structure.fixed_costs
         IN  /\ rf.year_1 = "$" \o FmtMul(v, 800)
             /\ rf.year_2 = "$" \o FmtMul(v, 1200)
             /\ rf.year_3 = "$" \o FmtMul(v, 1800)
             /\ fi[bt \o "_equipment"] = "$" \o FmtMul(v, 400)
             /\ fi[bt \o "_facility"] = "$" \o FmtMul(v, 250)
             /\ fi.total = "$" \o FmtInt(v)
             /\ fc.rent = "$" \o FmtMul(v, 20) \o "/month"
             /\ fc.total_fixed = "$" \o FmtMul(v, 28) \o "/month"
             /\ rep.break_even_analysis.break_even_revenue
                  = "$" \o FmtMul(v, 140) \o "/month"
             /\ TBD \notin MonetaryLeaves(rep)

\* the full report of a request with initial_investment 100875: the leaves
\* are the strings Python prints, and total_fixed (2824.5, printed 2,824) is
\* not the sum of the four leaves above it (2,018 + 504 + 202 + 101)
C4_Witness ==
  \E r \in Reqs :
    /\ Done(r, "receive_message") /\ Delivered(r) /\ Succeeded(outcome[r])
    /\ HasInvestment(r) /\ BusinessDataOf(r).initial_investment = 100875
    /\ AnalysisOf(r).financial_projections.revenue_forecast.year_1 = "$80,700"
    /\ AnalysisOf(r).funding_requirements.initial_investment.total = "$100,875"
    /\ AnalysisOf(r).cost_structure.fixed_costs.rent = "$2,018/month"
    /\ AnalysisOf(r).cost_structure.fixed_costs.total_fixed = "$2,824/month"
    /\ AnalysisOf(r).break_even_analysis.break_even_revenue = "$14,123/month"

\* C5: when the call succeeds, ai_analysis is the returned text verbatim and
\* everything else in the report depends on the business profile alone: two
\* requests with the same profile differ in ai_analysis at most.
C5_NarrativeVerbatim ==
  \A r1 \in Reqs :
    (Done(r1, "receive_message") /\ Delivered(r1) /\ Succeeded(outcome[r1]))
      => /\ response[r1].status_code = 200
         /\ DOMAIN AnalysisOf(r1) = FullKeys
         /\ AnalysisOf(r1).ai_analysis = outcome[r1].value.choices[1].message.content
         /\ \A r2 \in Reqs :
              (/\ Done(r2, "receive_message") /\ Delivered(r2)
               /\ Succeeded(outcome[r2])
               /\ BusinessDataOf(r2) = BusinessDataOf(r1))
                => /\ response[r2].status_code = 200
                   /\ \A k \in FullKeys \ {"ai_analysis"} :
                        AnalysisOf(r1)[k] = AnalysisOf(r2)[k]

\* two requests with the same profile whose calls returned different texts
C5_Witness ==
  \E r1, r2 \in Reqs :
    /\ Done(r1, "receive_message") /\ Delivered(r1) /\ Succeeded(outcome[r1])
    /\ Done(r2, "receive_message") /\ Delivered(r2) /\ Succeeded(outcome[r2])
    /\ BusinessDataOf(r1) = BusinessDataOf(r2)
    /\ AnalysisOf(r1).ai_analysis = "Focus on margins."
    /\ AnalysisOf(r2).ai_analysis = ""

\* the report of a failed call has the fallback shape, without the leaves
\* computed from initial_investment
FallbackFrame(r) ==
  LET rep == AnalysisOf(r)
      bt  == rep.business_type
  IN  /\ DOMAIN rep = FallbackKeys
      /\ "cost_structure" \notin DOMAIN rep
      /\ "cash_flow_management" \notin DOMAIN rep
      /\ DOMAIN rep.financial_projections = {"revenue_forecast"}
      /\ DOMAIN rep.financial_projections.revenue_forecast = {"year_1", "year_2"}
      /\ DOMAIN rep.funding_requirements.initial_investment = {"total"}
      /\ rep.pricing_strategy[bt \o "_pricing"] =
           (("basic_" \o bt \o "_service") :> "Market-based pricing") @@
           (("premium_" \o bt \o "_service") :> "Value-based pricing") @@
           ((bt \o "_consulting") :> "Hourly rate")
      /\ rep.recommendations =
           << "Maintain cash reserves", "Monitor costs closely",
              "Focus on high-margin " \o bt \o " products/services",
              "Build supplier relationships" >>

\* C6 as stated: when the call fails the report has the fallback shape, with
\* year_1 = 0.5 x and year_2 = 0.75 x initial_investment whenever
\* initial_investment is present, the placeholder when it is absent.
C6_FallbackShape_AsStated ==
  \A r \in Reqs :
    (Done(r, "receive_message") /\ Delivered(r) /\ Failed(outcome[r]))
      => /\ response[r].status_code = 200
         /\ FallbackFrame(r)
         /\ LET rf == AnalysisOf(r).financial_projections.revenue_forecast
                v  == BusinessDataOf(r).initial_investment
            IN  IF HasInvestment(r)
                  THEN rf.year_1 = FmtMul(v, 500) \o " THB"
                       /\ rf.year_2 = FmtMul(v, 750) \o " THB"
                  ELSE rf.year_1 = TBD /\ rf.year_2 = TBD

\* C6 (amended): when the call fails the report has the fallback shape (no
\* cost_structure, no cash_flow_management, the pricing labels, the four
\* recommendations, the total), with year_1 = 0.5 x and year_2 = 0.75 x
\* initial_investment when initial_investment is present and not 0, and the
\* placeholder otherwise.
C6_FallbackShape ==
  \A r \in Reqs :
    (Done(r, "receive_message") /\ Delivered(r) /\ Failed(outcome[r]))
      => /\ response[r].status_code = 200
         /\ FallbackFrame(r)
         /\ LET rep == AnalysisOf(r)
                rf  == rep.financial_projections.revenue_forecast
                v   == BusinessDataOf(r).initial_investment
            IN  IF HasInvestment(r) /\ v # 0
                  THEN /\ rf.year_1 = FmtMul(v, 500) \o " THB"
                       /\ rf.year_2 = FmtMul(v, 750) \o " THB"
                       /\ rep.funding_requirements.initial_investment.total
                            = FmtInt(v) \o " THB"
                  ELSE /\ rf.year_1 = TBD /\ rf.year_2 = TBD
                       /\ rep.funding_requirements.initial_investment.total = TBD

\* fallback reports of a request with initial_investment 100875 (year_1 is
\* 50437.5, printed 50,438) and of a request with initial_investment 0
C6_Witness ==
  \E r1, r2 \in Reqs :
    /\ Done(r1, "receive_message") /\ Delivered(r1) /\ Failed(outcome[r1])
    /\ BusinessDataOf(r1).initial_investment = 100875
    /\ AnalysisOf(r1).financial_projections.revenue_forecast
         = [year_1 |-> "50,438 THB", year_2 |-> "75,656 THB"]
    /\ Done(r2, "receive_message") /\ Delivered(r2) /\ Failed(outcome[r2])
    /\ BusinessDataOf(r2).initial_investment = 0
    /\ AnalysisOf(r2).financial_projections.revenue_forecast.year_1 = TBD

\* slot r served a task whose body is a JSON object
IsDescriptor(r) ==
  /\ request[r].endpoint = "execute_automated_task"
  /\ request[r].body.parses
  /\ IsDict(request[r].body.data)

TaskTypeOf(r) == GetOpt(request[r].body.data.items, "task_type")

GenericRecommendations ==
  << "Monitor cash flow regularly", "Review expense patterns",
     "Optimize pricing strategy" >>

\* what C7 says of every task_type other than the two named ones
GenericOutcome(r) ==
  /\ response[r].status_code = 200
  /\ response[r].body.status = "completed"
  /\ response[r].body.task_type = TaskTypeOf(r)
  /\ response[r].body.recommendations = GenericRecommendations

\* C7 as stated: financial_review yields a result with
\* financial_data.profit_margin = 20.0, budget_adjustment a result with
\* budget_adjustments.marketing_budget = "+20%", any other task_type the
\* generic completed result.
C7_Dispatch_AsStated ==
  \A r \in Reqs :
    (pc[r] = "done" /\ IsDescriptor(r))
      => LET body == response[r].body
         IN  IF TaskTypeOf(r) = Some("financial_review")
               THEN /\ "financial_data" \in DOMAIN body
                    /\ body.financial_data.profit_margin = 20
             ELSE IF TaskTypeOf(r) = Some("budget_adjustment")
               THEN /\ "budget_adjustments" \in DOMAIN body
                    /\ body.budget_adjustments.marketing_budget = "+20%"
             ELSE GenericOutcome(r)

\* C7 (amended): financial_review yields, when its completion call succeeds,
\* a result with financial_data.profit_margin = 20.0; budget_adjustment
\* yields, when its completion call succeeds, a result with
\* budget_adjustments.marketing_budget = "+20%"; any other task_type, an
\* absent one included, yields status "completed", the task_type echoed and
\* the three fixed recommendations, and no call is made.
C7_Dispatch ==
  \A r \in Reqs :
    (pc[r] = "done" /\ IsDescriptor(r))
      => LET body == response[r].body
         IN  IF TaskTypeOf(r) = Some("financial_review")
               THEN Succeeded(outcome[r])
                      => /\ body.status = "completed"
                         /\ "financial_data" \in DOMAIN body
                         /\ body.financial_data.profit_margin = 20
             ELSE IF TaskTypeOf(r) = Some("budget_adjustment")
               THEN Succeeded(outcome[r])
                      => /\ body.status = "completed"
                         /\ "budget_adjustments" \in DOMAIN body
                         /\ body.budget_adjustments.marketing_budget = "+20%"
             ELSE GenericOutcome(r) /\ ncalls[r] = 0

\* a completed review next to a generic result for an absent task_type
C7_Witness ==
  \E r1, r2 \in Reqs :
    /\ pc[r1] = "done" /\ IsDescriptor(r1)
    /\ TaskTypeOf(r1) = Some("financial_review")
    /\ Succeeded(outcome[r1])
    /\ response[r1].body.financial_data.profit_margin = 20
    /\ pc[r2] = "done" /\ IsDescriptor(r2)
    /\ TaskTypeOf(r2) = None
    /\ response[r2].body.task_type = None
    /\ response[r2].body.status = "completed"

\* C8: execute_automated_task never raises: whatever the body (unparseable,
\* JSON that is not an object, an object without task_type, a descriptor)
\* and whatever the call's outcome, it returns a mapping with status and
\* task_type.
C8_UniformEnvelope ==
  \A r \in Reqs :
    Done(r, "execute_automated_task")
      => /\ response[r].exception = "none"
         /\ {"status", "task_type"} \subseteq DOMAIN response[r].body

\* C9: a body that cannot be parsed as JSON is answered with status
\* "failed", task_type "unknown" and the failure description in error; no
\* generator runs and the completion service is not called.
C9_ParseFailure ==
  \A r \in Reqs :
    (Done(r, "execute_automated_task") /\ ~request[r].body.parses)
      => /\ response[r].status_code = 200
         /\ response[r].exception = "none"
         /\ response[r].body =
              [status |-> "failed", task_type |-> Some("unknown"),
               error |-> "Expecting value: line 1 column 1 (char 0)"]
         /\ ncalls[r] = 0
         /\ ~Delivered(r)

C9_Witness ==
  \E r \in Reqs :
    /\ Done(r, "execute_automated_task") /\ ~request[r].body.parses
    /\ response[r].body.status = "failed"
    /\ response[r].body.task_type = Some("unknown")

\* the message of the exception a failed call ends with
FailureMessage(o) == IF o.raised THEN o.exc ELSE "list index out of range"

\* C10: when the call fails inside perform_financial_review or
\* perform_budget_adjustment, the response is exactly that generator's
\* envelope: status "failed", the exception message in error and the
\* generator's own task_type; one call was made and no other generator ran.
C10_GeneratorFailure ==
  \A r \in Reqs :
    (/\ pc[r] = "done" /\ IsDescriptor(r) /\ Delivered(r) /\ Failed(outcome[r])
     /\ TaskTypeOf(r) \in {Some("financial_review"), Some("budget_adjustment")})
      => /\ response[r].status_code = 200
         /\ response[r].exception = "none"
         /\ response[r].body =
              [status |-> "failed", error |-> FailureMessage(outcome[r]),
               task_type |-> TaskTypeOf(r)]
         /\ ncalls[r] = 1

\* a failed review and a failed budget adjustment, each with its own task_type
C10_Witness ==
  \E r1, r2 \in Reqs :
    /\ pc[r1] = "done" /\ IsDescriptor(r1) /\ Delivered(r1) /\ Failed(outcome[r1])
    /\ TaskTypeOf(r1) = Some("financial_review")
    /\ response[r1].body.task_type = Some("financial_review")
    /\ response[r1].body.error = "Request timed out"
    /\ pc[r2] = "done" /\ IsDescriptor(r2) /\ Delivered(r2) /\ Failed(outcome[r2])
    /\ TaskTypeOf(r2) = Some("budget_adjustment")
    /\ response[r2].body.task_type = Some("budget_adjustment")
    /\ response[r2].body.error = "list index out of range"

\* C11: a success response of receive_message echoes the request's
\* agent_type and request_id; a failure that leaves
\* analyze_financial_aspects is answered with HTTP 500 whose detail is
\* "Financial analysis failed: " followed by the failure description, and
\* then there is no success response.
C11_EchoOr500 ==
  \A r \in Reqs :
    Done(r, "receive_message")
      => LET message == request[r].message
             prompt  == analyze_prompt(message.business_data, message.strategic_plan)
         IN  IF prompt.raised
               THEN /\ response[r].status_code = 500
                    /\ response[r].exception = "HTTPException"
                    /\ response[r].body =
                         [detail |-> "Financial analysis failed: " \o prompt.exc]
                    /\ "financial_analysis" \notin DOMAIN response[r].body
               ELSE /\ response[r].status_code = 200
                    /\ response[r].body.agent_type = message.agent_type
                    /\ response[r].body.request_id = message.request_id
                    /\ DOMAIN response[r].body =
                         {"agent_type", "financial_analysis", "request_id"}

\* one request answered with its own agent_type and request_id, one whose
\* analysis raised answered with the 500 detail
C11_Witness ==
  \E r1, r2 \in Reqs :
    /\ Done(r1, "receive_message") /\ response[r1].status_code = 200
    /\ response[r1].body.agent_type = "core-1"
    /\ response[r1].body.request_id = "req-1"
    /\ Done(r2, "receive_message") /\ response[r2].status_code = 500
    /\ response[r2].body.detail =
         "Financial analysis failed: unsupported format string passed to NoneType.__format__"

\* slot r answered a receive_message request with a positive
\* initial_investment, its call having ended
PositiveAnswered(r) ==
  /\ Done(r, "receive_message") /\ Delivered(r)
  /\ HasInvestment(r) /\ BusinessDataOf(r).initial_investment > 0

TotalOf(r) == AnalysisOf(r).funding_requirements.initial_investment.total

\* C12 as stated: for a positive initial_investment v, whether the call
\* succeeds or fails, the report's total is v formatted as currency and the
\* report has an ai_analysis field holding a non-empty string.
C12_EndToEnd_AsStated ==
  \A r \in Reqs :
    PositiveAnswered(r)
      => LET v == BusinessDataOf(r).initial_investment
         IN  /\ response[r].status_code = 200
             /\ TotalOf(r) \in {"$" \o FmtInt(v), FmtInt(v) \o " THB"}
             /\ "ai_analysis" \in DOMAIN AnalysisOf(r)
             /\ AnalysisOf(r).ai_analysis # ""

\* C12 (amended): for a positive initial_investment v the report's total is
\* v formatted as currency, "$v" when the call succeeds and "v THB" when it
\* fails; when the call succeeds the report has an ai_analysis field holding
\* the returned text, and when it fails the report has no ai_analysis field.
C12_EndToEnd ==
  \A r \in Reqs :
    PositiveAnswered(r)
      => LET v == BusinessDataOf(r).initial_investment
         IN  /\ response[r].status_code = 200
             /\ IF Succeeded(outcome[r])
                  THEN /\ TotalOf(r) = "$" \o FmtInt(v)
                       /\ "ai_analysis" \in DOMAIN AnalysisOf(r)
                       /\ AnalysisOf(r).ai_analysis
                            = outcome[r].value.choices[1].message.content
                  ELSE /\ TotalOf(r) = FmtInt(v) \o " THB"
                       /\ "ai_analysis" \notin DOMAIN AnalysisOf(r)

\* the same positive initial_investment answered after a successful and
\* after a failed call
C12_Witness ==
  \E r1, r2 \in Reqs :
    /\ PositiveAnswered(r1) /\ Succeeded(outcome[r1])
    /\ TotalOf(r1) = "$100,875"
    /\ AnalysisOf(r1).ai_analysis = "Focus on margins."
    /\ PositiveAnswered(r2) /\ Failed(outcome[r2])
    /\ TotalOf(r2) = "100,875 THB"

\* the fractions, in thousandths, a monetary leaf can be derived with
Fractions ==
  {800, 1200, 1800, 50, 80, 100, 400, 250, 150, 500, 20, 5, 2, 1, 28, 3, 75,
   140, 750}

\* the currency strings derived from initial_investment v
Derived(v) ==
  { "$" \o FmtMul(v, m) : m \in Fractions }
  \cup { "$" \o FmtMul(v, m) \o "/month" : m \in Fractions }
  \cup { FmtMul(v, m) \o " THB" : m \in Fractions }
  \cup { "$" \o FmtInt(v), FmtInt(v) \o " THB" }

\* Derived, tabulated over the inputs
DerivedOf == [v \in Investments |-> Derived(v)]

\* what a monetary leaf holds when it is not derived
Placeholders ==
  {TBD, "Market-based pricing", "Value-based pricing", "Hourly rate"}

\* slot r was answered with a report
Reported(r) == Done(r, "receive_message") /\ response[r].status_code = 200

NamedTask(r) ==
  /\ IsDescriptor(r)
  /\ TaskTypeOf(r) \in {Some("financial_review"), Some("budget_adjustment")}

\* C14: no retries.  A request calls the completion service at most once:
\* exactly once for receive_message and for the financial_review and
\* budget_adjustment tasks, never for the generic task path and for
\* health_check; once a call has failed the request is answered and no call
\* is in flight.
C14_NoRetries ==
  \A r \in Reqs :
    /\ ncalls[r] <= 1
    /\ Done(r, "receive_message") => ncalls[r] = 1
    /\ (pc[r] = "done" /\ NamedTask(r)) => ncalls[r] = 1
    /\ (pc[r] = "done" /\ IsDescriptor(r) /\ ~NamedTask(r)) => ncalls[r] = 0
    /\ Done(r, "health_check") => ncalls[r] = 0
    /\ (Delivered(r) /\ Failed(outcome[r])) => (pc[r] = "done" /\ call[r] = NoCall)

\* the response a request gets when it is served alone: a function of its
\* own input and of the outcome of its own call
Alone(req, o) ==
  IF req.endpoint = "receive_message"
    THEN LET prompt == analyze_prompt(req.message.business_data,
                                      req.message.strategic_plan)
         IN  receive_message_response(req.message,
               IF prompt.raised THEN prompt
               ELSE analyze_result(req.message.business_data, o))
  ELSE IF req.endpoint = "health_check"
    THEN Returned([status |-> "healthy", agent_type |-> "financial"])
  ELSE LET parsed == request_json(req.body)
           first  == IF parsed.raised THEN parsed
                     ELSE DataGet(parsed.value, "task_type")
       IN  IF first.raised THEN task_error(parsed, first.exc)
           ELSE LET data == parsed.value.items
                    tt   == GetOpt(data, "task_type")
                    bn   == GetOpt(data, "business_name")
                    bid  == Get(data, "business_id", "temp_id")
                IN  IF tt = Some("financial_review")
                      THEN Returned(perform_financial_review(bn, bid, o))
                    ELSE IF tt = Some("budget_adjustment")
                      THEN Returned(perform_budget_adjustment(bn, bid, o))
                    ELSE Returned(generic_result(tt, bn))

\* every request a slot can serve, and every outcome its call can have
AllRequests ==
  { [endpoint |-> "receive_message", message |-> m] :
      m \in UNION { Messages(r) : r \in Reqs } }
  \cup { [endpoint |-> "execute_automated_task", body |-> b] : b \in TaskBodies }
  \cup { [endpoint |-> "health_check"] }

\* the request reaches a call of the completion service
Calls(req) ==
  IF req.endpoint = "receive_message"
    THEN ~analyze_prompt(req.message.business_data, req.message.strategic_plan).raised
  ELSE IF req.endpoint = "health_check" THEN FALSE
  ELSE /\ req.body.parses
       /\ IsDict(req.body.data)
       /\ GetOpt(req.body.data.items, "task_type")
            \in {Some("financial_review"), Some("budget_adjustment")}

\* Alone, tabulated over the inputs
AloneOf ==
  [q \in { <<req, o>> \in AllRequests \X (CompletionOutcomes \cup {NoOutcome}) :
             (o = NoOutcome) = ~Calls(req) }
     |-> Alone(q[1], q[2])]

\* C15: requests do not interfere.  Whatever the other requests in flight
\* are and in whatever order the calls return, a request's response is the
\* one it gets when served alone: it carries its own request_id (or
\* task_type), its report comes from its own input and its own call, and a
\* request whose own call succeeded is never answered with a fallback report
\* or a failed status.
C15_NoInterference ==
  \A r \in Reqs :
    pc[r] = "done"
      => /\ response[r] = AloneOf[<<request[r], outcome[r]>>]
         /\ (Done(r, "receive_message") /\ response[r].status_code = 200)
              => /\ response[r].body.request_id = request[r].message.request_id
                 /\ AnalysisOf(r).business_name
                      = Get(BusinessDataOf(r), "business_name", "")
         /\ (Done(r, "receive_message") /\ Delivered(r) /\ Succeeded(outcome[r]))
              => /\ response[r].status_code = 200
                 /\ DOMAIN AnalysisOf(r) = FullKeys
         /\ (NamedTask(r) /\ Succeeded(outcome[r]))
              => /\ response[r].body.status = "completed"
                 /\ response[r].body.task_type = TaskTypeOf(r)

\* two requests with the same profile, one whose call failed and one whose
\* call succeeded, each answered under its own request_id, next to each other
C15_Witness ==
  \E r1, r2 \in Reqs :
    /\ r1 # r2
    /\ Done(r1, "receive_message") /\ Delivered(r1) /\ outcome[r1].raised
    /\ DOMAIN AnalysisOf(r1) = FallbackKeys
    /\ response[r1].body.request_id = "req-" \o Digits(r1)
    /\ Done(r2, "receive_message") /\ Delivered(r2) /\ Succeeded(outcome[r2])
    /\ BusinessDataOf(r2) = BusinessDataOf(r1)
    /\ DOMAIN AnalysisOf(r2) = FullKeys
    /\ response[r2].body.request_id = "req-" \o Digits(r2)

====
